---- MODULE Spec2Model ----
(***************************************************************************)
(* Model of the two command-line tools of the repository:                  *)
(*   src/blockasset_data.py   price history, de-duplicated per UTC date    *)
(*   src/crypto_trending.py   trending coins, RSI and buy/sell signal      *)
(* and of the CSV / SQLite sinks both tools write to.                      *)
(*                                                                         *)
(* Prices are integer-valued; the RSI is computed in IEEE 754 binary64     *)
(* arithmetic as Python floats are; timestamps are integer milliseconds    *)
(* since the epoch.                                                        *)
(***************************************************************************)
EXTENDS Integers, Sequences, FiniteSets, TLC

VARIABLES
    \* ---- blockasset_data.fetch_price_history
    payload,      \* data["prices"]: the [timestamp, price] pairs of the response
    hpc,          \* position in fetch_price_history
    hi,           \* number of pairs the for loop has consumed
    per_date,     \* the dict per_date, as (key, value) pairs in insertion order
    rows,         \* the list returned
    \* ---- crypto_trending.compute_rsi and the classification of analyze_coin
    prices,       \* argument prices
    period,       \* argument period
    rsi,          \* value returned by compute_rsi (or the exception raised)
    signal,       \* signal chosen by analyze_coin
    rpc,          \* position
    \* ---- crypto_trending.main
    trending,     \* data["coins"] of the trending response
    tpc,          \* position in main
    coins,        \* the list coins of main
    ti,           \* number of coins the for loop has analysed
    results,      \* the list results of main
    failed,       \* indices of the coins whose price request failed
    \* ---- the sinks save_csv / save_db of both tools
    tool,         \* which tool's sinks are exercised
    spc,          \* position inside the running sink call
    srows,        \* argument rows of the running sink call
    csv_file,     \* lines of the CSV file at the target path; the last one
                  \* may be cut (kind "cut") when a flush failed or is pending
    csv_base,     \* content of the file when open() of the running save_csv
                  \* returned
    csv_out,      \* lines the running save_csv has handed to its writer
    file_open,    \* the file handle of save_csv is open
    table,        \* committed state of the SQLite table (NoTable: absent)
    txn,          \* the table as seen by the open connection (uncommitted)
    conn_open,    \* the sqlite3 connection of save_db is open
    outcome,      \* how the last sink call ended
    last_rows,    \* history: the rows of the last two calls that returned, per sink
    nwrites       \* number of sink calls started

varsHist  == <<payload, hpc, hi, per_date, rows>>
varsRsi   == <<prices, period, rsi, signal, rpc>>
varsTrend == <<trending, tpc, coins, ti, results, failed>>
varsSink  == <<tool, spc, srows, csv_file, csv_base, csv_out, file_open, table, txn, conn_open,
               outcome, last_rows, nwrites>>
vars      == <<varsHist, varsRsi, varsTrend, varsSink>>

\* what the actions of one part leave alone
restHist  == <<varsRsi, varsTrend, varsSink>>
restRsi   == <<varsHist, varsTrend, varsSink>>
restTrend == <<varsHist, varsRsi, varsSink>>
restSink  == <<varsHist, varsRsi, varsTrend>>

----------------------------------------------------------------------------
(* Values shared by the parts.                                             *)

\* what a call of compute_rsi yields: None, a float (kind "float", see the
\* float arithmetic below), or a raised exception
NotAFloat(k)      == [kind |-> k, neg |-> FALSE, hi |-> 0, lo |-> 0, exp |-> 0]
None              == NotAFloat("None")
ZeroDivisionError == NotAFloat("ZeroDivisionError")

\* a database without the table; no sink call has returned yet
NoTable == [exists |-> FALSE, rows |-> <<>>]
NoWrite == [csv_writes |-> 0, csv_rows |-> <<>>, csv_prev |-> <<>>,
            db_writes  |-> 0, db_rows  |-> <<>>, db_prev  |-> <<>>]

----------------------------------------------------------------------------
(* Bounds of the model and sequences over small sets.                      *)

MaxSamples == 3

RECURSIVE SeqsUpTo(_, _)
SeqsUpTo(S, n) ==
    IF n = 0 THEN {<<>>}
    ELSE LET shorter == SeqsUpTo(S, n - 1)
         IN  shorter \cup {Append(s, x) : s \in {t \in shorter : Len(t) = n - 1}, x \in S}

Min(a, b) == IF a < b THEN a ELSE b

----------------------------------------------------------------------------
(* Calendar date of a timestamp: datetime.utcfromtimestamp(ts / 1000)      *)
(* .strftime("%Y-%m-%d").  A date string is the sequence of its character  *)
(* codes, compared as Python compares str.                                 *)

\* proleptic Gregorian date of a day number counted from 1970-01-01
CivilFromDays(days) ==
    LET z    == days + 719468
        era  == z \div 146097
        doe  == z - era * 146097
        yoe  == (doe - doe \div 1460 + doe \div 36524 - doe \div 146096) \div 365
        doy  == doe - (365 * yoe + yoe \div 4 - yoe \div 100)
        mp   == (5 * doy + 2) \div 153
        d    == doy - (153 * mp + 2) \div 5 + 1
        m    == IF mp < 10 THEN mp + 3 ELSE mp - 9
        y    == yoe + era * 400 + (IF m <= 2 THEN 1 ELSE 0)
    IN  [year |-> y, month |-> m, day |-> d]

utcfromtimestamp(ts) == CivilFromDays((ts \div 1000) \div 86400)

Digit(n) == 48 + n
Hyphen   == <<45>>

\* strftime("%Y-%m-%d") for years 1000..9999
strftime(dt) ==
    <<Digit(dt.year \div 1000), Digit((dt.year \div 100) % 10),
      Digit((dt.year \div 10) % 10), Digit(dt.year % 10)>>
    \o Hyphen \o <<Digit(dt.month \div 10), Digit(dt.month % 10)>>
    \o Hyphen \o <<Digit(dt.day \div 10), Digit(dt.day % 10)>>

DateOf(ts) == strftime(utcfromtimestamp(ts))

\* str.__lt__: lexicographic on code points, a proper prefix is smaller
RECURSIVE StrLess(_, _)
StrLess(a, b) ==
    IF b = <<>> THEN FALSE
    ELSE IF a = <<>> THEN TRUE
    ELSE IF Head(a) # Head(b) THEN Head(a) < Head(b)
    ELSE StrLess(Tail(a), Tail(b))

\* sorted(): stable insertion into an ascending list
RECURSIVE InsertSorted(_, _)
InsertSorted(x, s) ==
    IF s = <<>> THEN <<x>>
    ELSE IF StrLess(x, Head(s)) THEN <<x>> \o s
    ELSE <<Head(s)>> \o InsertSorted(x, Tail(s))

RECURSIVE sorted(_)
sorted(keys) ==
    IF keys = <<>> THEN <<>>
    ELSE InsertSorted(keys[Len(keys)], sorted(SubSeq(keys, 1, Len(keys) - 1)))

----------------------------------------------------------------------------
(* The dict per_date: (key, value) pairs in insertion order.               *)

DictKeys(d) == [i \in 1..Len(d) |-> d[i].key]
DictHas(d, k) == \E i \in 1..Len(d) : d[i].key = k
DictGet(d, k) == d[CHOOSE i \in 1..Len(d) : d[i].key = k].val

\* variant: the first value stored under a key is kept
DictSetDefault(d, k, v) ==
    IF DictHas(d, k) THEN d ELSE Append(d, [key |-> k, val |-> v])

\* d[k] = v
DictSet(d, k, v) ==
    IF DictHas(d, k)
    THEN [i \in 1..Len(d) |-> IF d[i].key = k THEN [key |-> k, val |-> v] ELSE d[i]]
    ELSE Append(d, [key |-> k, val |-> v])

----------------------------------------------------------------------------
(* blockasset_data.fetch_price_history                                     *)

TsVals    == {-1, 0, 86399999, 86400000}
PriceVals == {1, 2, 3}
Samples   == {<<ts, price>> : ts \in TsVals, price \in PriceVals}

\* int(ts), float(price) of a JSON integer timestamp and a JSON number
Sample(ts, price) == <<ts, price>>

\* variant: rows in the dict's insertion order, without sorted()
RowsInInsertionOrder(d) == [i \in 1..Len(d) |-> d[i].val]

\* rows = [per_date[d] for d in sorted(per_date)]
RowsOf(d) ==
    LET ks == sorted(DictKeys(d))
    IN  [i \in 1..Len(ks) |-> DictGet(d, ks[i])]


InitHist ==
    /\ payload \in SeqsUpTo(Samples, MaxSamples)
    /\ hpc = "request"
    /\ hi = 0
    /\ per_date = <<>>
    /\ rows = <<>>
    \* the other parts of the program are at rest
    /\ prices = <<>>
    /\ period = 0
    /\ rsi = None
    /\ signal = ""
    /\ rpc = "idle"
    /\ trending = <<>>
    /\ tpc = "idle"
    /\ coins = <<>>
    /\ ti = 0
    /\ results = <<>>
    /\ failed = {}
    /\ tool = "none"
    /\ spc = "off"
    /\ srows = <<>>
    /\ csv_file = <<>>
    /\ csv_base = <<>>
    /\ csv_out = <<>>
    /\ file_open = FALSE
    /\ table = NoTable
    /\ txn = NoTable
    /\ conn_open = FALSE
    /\ outcome = "none"
    /\ last_rows = NoWrite
    /\ nwrites = 0

\* requests.get + raise_for_status succeed; resp.json() is parsed
HistResponse ==
    /\ hpc = "request"
    /\ hpc' = "loop"
    /\ UNCHANGED <<payload, hi, per_date, rows>>
    /\ UNCHANGED restHist

\* transport error or non-2xx status: the exception leaves the function
HistRaise ==
    /\ hpc = "request"
    /\ hpc' = "raised"
    /\ UNCHANGED <<payload, hi, per_date, rows>>
    /\ UNCHANGED restHist

\* one iteration of  for ts, price in data.get("prices", [])
HistLoop ==
    /\ hpc = "loop"
    /\ hi < Len(payload)
    /\ LET ts    == payload[hi + 1][1]
           price == payload[hi + 1][2]
       IN  per_date' = DictSet(per_date, DateOf(ts), Sample(ts, price))
    /\ hi' = hi + 1
    /\ UNCHANGED <<payload, hpc, rows>>
    /\ UNCHANGED restHist

\* the loop is exhausted: build rows and return
HistReturn ==
    /\ hpc = "loop"
    /\ hi = Len(payload)
    /\ rows' = RowsOf(per_date)
    /\ hpc' = "done"
    /\ UNCHANGED <<payload, hi, per_date>>
    /\ UNCHANGED restHist

NextHist ==
    \/ HistResponse
    \/ HistRaise
    \/ HistLoop
    \/ HistReturn

----------------------------------------------------------------------------
(* IEEE 754 binary64 arithmetic, round to nearest, ties to even: the float  *)
(* operations of compute_rsi and of round().  A natural number below 2^58   *)
(* is a pair <<hi, lo>> of limbs, hi * 2^27 + lo.  A float is its sign, a   *)
(* 53-bit significand in [2^52, 2^53) and the exponent of that             *)
(* significand's unit, so that the value is (hi * 2^27 + lo) * 2^exp; zero *)
(* has the significand 0.  Exponents stay far from the subnormal and the    *)
(* overflow range for the values the program computes.                     *)

Abs(x) == IF x < 0 THEN -x ELSE x

\* the one element of a singleton; the operations below bind their operands
\* through it, so that each operand is computed once
The(S) == CHOOSE r \in S : TRUE

\* a Python float is an IEEE 754 binary64: 53 significant bits
SignificandBits == 53

LimbBits == (SignificandBits + 1) \div 2
LimbBase == 2^LimbBits

BigOfInt(k)   == <<k \div LimbBase, k % LimbBase>>
BigIsZero(a)  == a[1] = 0 /\ a[2] = 0
BigLess(a, b) == a[1] < b[1] \/ (a[1] = b[1] /\ a[2] < b[2])
BigAdd(a, b)  ==
    LET lo == a[2] + b[2]
    IN  <<a[1] + b[1] + lo \div LimbBase, lo % LimbBase>>
\* a - b for a >= b
BigSub(a, b)  ==
    LET lo == a[2] - b[2]
    IN  IF lo >= 0 THEN <<a[1] - b[1], lo>> ELSE <<a[1] - b[1] - 1, lo + LimbBase>>
\* 2 * a
BigShl(a)     ==
    LET lo == 2 * a[2]
    IN  <<2 * a[1] + lo \div LimbBase, lo % LimbBase>>

\* a * 2^n for 0 <= n < 2 * LimbBits and a result below 2^58
BigShlBy(a, n) ==
    IF n >= LimbBits
    THEN <<(IF a[1] = 0 THEN 0 ELSE a[1] * 2^n) + a[2] * 2^(n - LimbBits), 0>>
    ELSE <<a[1] * 2^n + a[2] \div 2^(LimbBits - n), (a[2] % 2^(LimbBits - n)) * 2^n>>

\* a / 2^n for n >= 0 and a below 2^58; the bits shifted out are summed up
\* in the lowest bit of the result (sticky)
BigShrStickyBy(a, n) ==
    LET whole  == IF n >= LimbBits + 31 THEN <<0, 0>>
                  ELSE IF n >= LimbBits THEN BigOfInt(a[1] \div 2^(n - LimbBits))
                  ELSE <<a[1] \div 2^n,
                         (a[1] % 2^n) * 2^(LimbBits - n) + a[2] \div 2^n>>
         lost   == IF n >= LimbBits + 31 THEN ~BigIsZero(a)
                   ELSE IF n >= LimbBits THEN a[1] % 2^(n - LimbBits) # 0 \/ a[2] # 0
                   ELSE a[2] % 2^n # 0
    IN  IF lost /\ whole[2] % 2 = 0 THEN <<whole[1], whole[2] + 1>> ELSE whole

\* the number of bits of a natural below 2^31, and of a two-limb natural
BitLen(x)    == IF x = 0 THEN 0 ELSE The({k \in 1..31 : x \div 2^(k - 1) = 1})
BigBitLen(a) == IF a[1] > 0 THEN LimbBits + BitLen(a[1]) ELSE BitLen(a[2])

FloatZero(neg) == [kind |-> "float", neg |-> neg, hi |-> 0, lo |-> 0, exp |-> 0]
Significand(x) == <<x.hi, x.lo>>
FIsZero(x)     == x.hi = 0 /\ x.lo = 0

\* m * 2^e for a natural m of exactly SignificandBits + 2 bits is rounded to
\* the significand of a float: to nearest, a tie to the even significand
RoundBits(m, e, neg) ==
    LET low2 == m[2] % 4
        kept == <<m[1] \div 4, (m[1] % 4) * (LimbBase \div 4) + m[2] \div 4>>
        up   == low2 = 3 \/ (low2 = 2 /\ kept[2] % 2 = 1)
        r    == IF up THEN BigAdd(kept, <<0, 1>>) ELSE kept
    IN  IF r[1] >= LimbBase \div 2
        THEN [kind |-> "float", neg |-> neg, hi |-> LimbBase \div 4, lo |-> 0,
              exp |-> e + 3]
        ELSE [kind |-> "float", neg |-> neg, hi |-> r[1], lo |-> r[2],
              exp |-> e + 2]

\* the float nearest to m * 2^e, for a natural m whose bits below the two
\* under the rounding position are summed up in its lowest bit
RoundToFloat(m, e, neg) ==
    The({ IF BigIsZero(x) THEN FloatZero(neg)
          ELSE LET len == BigBitLen(x)
               IN  IF len > SignificandBits + 2
                   THEN RoundBits(BigShrStickyBy(x, len - SignificandBits - 2),
                                  e + len - SignificandBits - 2, neg)
                   ELSE RoundBits(BigShlBy(x, SignificandBits + 2 - len),
                                  e + len - SignificandBits - 2, neg)
          : x \in {m} })

\* float(k) of an int
FloatOfInt(k) == The({RoundToFloat(BigOfInt(Abs(x)), 0, x < 0) : x \in {k}})

\* one more quotient bit of rem / d by shift and subtract, for a state
\* <<quotient, remainder>>
DivStep(st, d) ==
    LET r2 == BigShl(st[2])
    IN  IF BigLess(r2, d) THEN <<BigShl(st[1]), r2>>
        ELSE <<BigAdd(BigShl(st[1]), <<0, 1>>), BigSub(r2, d)>>

\* n >= 1 more quotient bits: the first half of them, then the others
RECURSIVE DivBits(_, _, _)
DivBits(st, d, n) ==
    IF n = 1 THEN DivStep(st, d)
    ELSE The({DivBits(half, d, n - n \div 2) : half \in {DivBits(st, d, n \div 2)}})

\* the quotient of two significands to SignificandBits + 2 fraction bits, what
\* is left of the division summed up in the lowest bit
QuotientBits(ma, mb) ==
    LET ge == ~BigLess(ma, mb)
        qr == DivBits(IF ge THEN << <<0, 1>>, BigSub(ma, mb) >> ELSE << <<0, 0>>, ma >>,
                      mb, SignificandBits + 2)
    IN  The({ IF BigIsZero(st[2]) \/ st[1][2] % 2 = 1 THEN st[1]
              ELSE BigAdd(st[1], <<0, 1>>) : st \in {qr} })

\* a / b for b # 0
FDiv(a, b) ==
    The({ IF FIsZero(x) THEN FloatZero(x.neg # y.neg)
          ELSE RoundToFloat(QuotientBits(Significand(x), Significand(y)),
                            x.exp - y.exp - SignificandBits - 2, x.neg # y.neg)
          : x \in {a}, y \in {b} })

\* |a| < |b|
MagLess(a, b) ==
    IF FIsZero(b) THEN FALSE
    ELSE IF FIsZero(a) THEN TRUE
    ELSE a.exp < b.exp \/ (a.exp = b.exp /\ BigLess(Significand(a), Significand(b)))

\* a < b for floats that are not negative
FLess(a, b) == MagLess(a, b)

\* |a| + |b| (add) or |a| - |b| (subtract) for |a| >= |b|, with the sign neg:
\* three more bits are kept under the significand of a, the bits of b below
\* them are summed up in the lowest one
FAddMag(a, b, subtract, neg) ==
    IF FIsZero(b) THEN [a EXCEPT !.neg = neg]
    ELSE LET big   == BigShlBy(Significand(a), 3)
             small == BigShrStickyBy(BigShlBy(Significand(b), 3), a.exp - b.exp)
         IN  The({ RoundToFloat(m, a.exp - 3, IF BigIsZero(m) THEN FALSE ELSE neg)
                   : m \in {IF subtract THEN BigSub(big, small) ELSE BigAdd(big, small)} })

\* a + b for floats that are not negative
FAdd(a, b) ==
    The({ IF MagLess(x, y) THEN FAddMag(y, x, FALSE, FALSE) ELSE FAddMag(x, y, FALSE, FALSE)
          : x \in {a}, y \in {b} })

\* a - b for floats that are not negative
FSub(a, b) ==
    The({ IF MagLess(x, y) THEN FAddMag(y, x, TRUE, TRUE) ELSE FAddMag(x, y, TRUE, FALSE)
          : x \in {a}, y \in {b} })

----------------------------------------------------------------------------
(* crypto_trending.compute_rsi and the classification of analyze_coin      *)

IsFloat(v) == v.kind = "float"

\* variant: a window over the whole series
WindowWholeSeries(ps, p) == 1..(Len(ps) - 1)

\* the indices i of  for i in range(1, period + 1)
Window(ps, p) == 1..p

\* prices[i] with i counted from 0
At(ps, i) == ps[i + 1]

\* sum(gains): the deltas > 0 (exact: the prices of the model are integers)
RECURSIVE SumGains(_, _)
SumGains(ps, I) ==
    IF I = {} THEN 0
    ELSE LET i     == CHOOSE x \in I : TRUE
             delta == At(ps, i) - At(ps, i - 1)
         IN  (IF delta > 0 THEN delta ELSE 0) + SumGains(ps, I \ {i})

\* sum(losses): -delta for the deltas <= 0
RECURSIVE SumLosses(_, _)
SumLosses(ps, I) ==
    IF I = {} THEN 0
    ELSE LET i     == CHOOSE x \in I : TRUE
             delta == At(ps, i) - At(ps, i - 1)
         IN  (IF delta > 0 THEN 0 ELSE -delta) + SumLosses(ps, I \ {i})

\* rs = avg_gain / avg_loss; 100 - (100 / (1 + rs))
RsiFormula(avg_gain, avg_loss) ==
    LET rs == FDiv(avg_gain, avg_loss)
    IN  FSub(FloatOfInt(100), FDiv(FloatOfInt(100), FAdd(FloatOfInt(1), rs)))

\* if avg_loss == 0: return 100.0, else the formula
RsiOfAverages(avg_gain, avg_loss) ==
    IF FIsZero(avg_loss) THEN FloatOfInt(100) ELSE RsiFormula(avg_gain, avg_loss)

\* sum(...) / period for period # 0
Average(total, p) == FDiv(FloatOfInt(total), FloatOfInt(p))

compute_rsi(ps, p) ==
    IF Len(ps) <= p THEN None
    ELSE IF p = 0 THEN ZeroDivisionError      \* sum(gains) / period
    ELSE RsiOfAverages(Average(SumGains(ps, Window(ps, p)), p),
                       Average(SumLosses(ps, Window(ps, p)), p))

\* variant: inclusive thresholds
SignalInclusive(v) ==
    IF v = None THEN "neutral"
    ELSE IF ~FLess(FloatOfInt(30), v) THEN "buy"
    ELSE IF ~FLess(v, FloatOfInt(70)) THEN "sell"
    ELSE "neutral"

\* the if / elif chain of analyze_coin
Signal(v) ==
    IF v = None THEN "neutral"
    ELSE IF FLess(v, FloatOfInt(30)) THEN "buy"
    ELSE IF FLess(FloatOfInt(70), v) THEN "sell"
    ELSE "neutral"

MaxLen    == 4
MaxPeriod == 3
RsiPrices == {1, 4, 8, 11}
Periods   == -1..MaxPeriod


InitRsi ==
    /\ prices \in SeqsUpTo(RsiPrices, MaxLen)
    /\ period \in Periods
    /\ rsi = None
    /\ signal = ""
    /\ rpc = "call"
    \* the other parts of the program are at rest
    /\ payload = <<>>
    /\ hpc = "idle"
    /\ hi = 0
    /\ per_date = <<>>
    /\ rows = <<>>
    /\ trending = <<>>
    /\ tpc = "idle"
    /\ coins = <<>>
    /\ ti = 0
    /\ results = <<>>
    /\ failed = {}
    /\ tool = "none"
    /\ spc = "off"
    /\ srows = <<>>
    /\ csv_file = <<>>
    /\ csv_base = <<>>
    /\ csv_out = <<>>
    /\ file_open = FALSE
    /\ table = NoTable
    /\ txn = NoTable
    /\ conn_open = FALSE
    /\ outcome = "none"
    /\ last_rows = NoWrite
    /\ nwrites = 0

\* rsi = compute_rsi(prices, period) returns
RsiReturn ==
    /\ rpc = "call"
    /\ compute_rsi(prices, period) # ZeroDivisionError
    /\ rsi' = compute_rsi(prices, period)
    /\ rpc' = "returned"
    /\ UNCHANGED <<prices, period, signal>>
    /\ UNCHANGED restRsi

\* the division by period raises
RsiRaise ==
    /\ rpc = "call"
    /\ compute_rsi(prices, period) = ZeroDivisionError
    /\ rsi' = ZeroDivisionError
    /\ rpc' = "raised"
    /\ UNCHANGED <<prices, period, signal>>
    /\ UNCHANGED restRsi

\* the caller classifies the value returned
Classify ==
    /\ rpc = "returned"
    /\ signal' = Signal(rsi)
    /\ rpc' = "done"
    /\ UNCHANGED <<prices, period, rsi>>
    /\ UNCHANGED restRsi

NextRsi ==
    \/ RsiReturn
    \/ RsiRaise
    \/ Classify

----------------------------------------------------------------------------
(* crypto_trending: fetch_trending, fetch_prices, analyze_coin, main       *)

TopN          == 7     \* coins = fetch_trending()[:7]
DefaultPeriod == 14    \* compute_rsi(prices, period=14)
MaxTrending   == 8

\* entries of data["coins"] as the trending endpoint returns them
RawCoins ==
    { [item |-> [id |-> "btc", name |-> "Bitcoin",  symbol |-> "BTC", score |-> 0]],
      [item |-> [id |-> "eth", name |-> "Ethereum", symbol |-> "ETH", score |-> 1]] }

\* data["prices"] of the market_chart endpoint for a coin: [timestamp, price] pairs
MarketChart(id) ==
    IF id = "btc"
    THEN << <<0, 1000>>, <<1, 1067>> >>
         \o [i \in 1..13 |-> <<i + 1, 974>>]
         \o << <<15, 990>> >>
    ELSE [i \in 1..16 |-> <<i - 1, i>>]

\* results of fetch_trending: id, name and symbol of every entry, in order
fetch_trending(data) ==
    [i \in 1..Len(data) |->
        [id |-> data[i].item.id, name |-> data[i].item.name, symbol |-> data[i].item.symbol]]

\* variant: no slice
SelectAll(list) == list

\* fetch_trending()[:7]
SelectCoins(list) == SubSeq(list, 1, Min(TopN, Len(list)))

\* variant: no try / except, the RequestException leaves fetch_prices
fetch_prices_unguarded(coin_id, ok) ==
    [raised |-> ~ok,
     value  |-> IF ok
                THEN [i \in 1..Len(MarketChart(coin_id)) |-> MarketChart(coin_id)[i][2]]
                ELSE <<>>]

\* fetch_prices: ok is FALSE when requests.get or raise_for_status raises a
\* RequestException, which the except clause turns into an empty list
fetch_prices(coin_id, ok) ==
    [raised |-> FALSE,
     value  |-> IF ok
                THEN [i \in 1..Len(MarketChart(coin_id)) |-> MarketChart(coin_id)[i][2]]
                ELSE <<>>]

NaN      == NotAFloat("nan")
isnan(v) == v.kind = "nan"

\* analyze_coin: (symbol, rsi or nan, signal)
analyze_coin(coin, ok) ==
    The({ [symbol |-> coin.symbol,
           rsi    |-> IF v # None THEN v ELSE NaN,
           signal |-> Signal(v)]
          : v \in {compute_rsi(fetch_prices(coin.id, ok).value, DefaultPeriod)} })

\* the number of hundredths nearest to the exact value of the float v, ties
\* to even, for 0 <= v < 2^20: 100 * v = 25 * significand / 2^(-exp - 2)
Hundredths(v) ==
    IF FIsZero(v) THEN 0
    ELSE LET m   == Significand(v)
             n   == BigAdd(BigAdd(BigShlBy(m, 4), BigShlBy(m, 3)), m)
             s   == BigShrStickyBy(n, -v.exp - 4)
             q   == s[2] \div 4 + s[1] * (LimbBase \div 4)
             low == s[2] % 4
         IN  IF low = 3 \/ (low = 2 /\ q % 2 = 1) THEN q + 1 ELSE q

\* round(x, 2) of a float that is not negative: the exact value is rounded
\* to two decimals, and the float nearest to that decimal is returned
round2(v) == FDiv(FloatOfInt(Hundredths(v)), FloatOfInt(100))

\* the dict main appends to results
ResultRow(coin, ok) ==
    The({ [name   |-> coin.name,
           symbol |-> a.symbol,
           rsi    |-> IF ~isnan(a.rsi) THEN round2(a.rsi) ELSE None,
           signal |-> a.signal]
          : a \in {analyze_coin(coin, ok)} })


InitTrend ==
    /\ trending \in SeqsUpTo(RawCoins, MaxTrending)
    /\ tpc = "start"
    /\ coins = <<>>
    /\ ti = 0
    /\ results = <<>>
    /\ failed = {}
    \* the other parts of the program are at rest
    /\ payload = <<>>
    /\ hpc = "idle"
    /\ hi = 0
    /\ per_date = <<>>
    /\ rows = <<>>
    /\ prices = <<>>
    /\ period = 0
    /\ rsi = None
    /\ signal = ""
    /\ rpc = "idle"
    /\ tool = "none"
    /\ spc = "off"
    /\ srows = <<>>
    /\ csv_file = <<>>
    /\ csv_base = <<>>
    /\ csv_out = <<>>
    /\ file_open = FALSE
    /\ table = NoTable
    /\ txn = NoTable
    /\ conn_open = FALSE
    /\ outcome = "none"
    /\ last_rows = NoWrite
    /\ nwrites = 0

\* coins = fetch_trending()[:7]; results = []
TrendSelect ==
    /\ tpc = "start"
    /\ coins' = SelectCoins(fetch_trending(trending))
    /\ tpc' = "loop"
    /\ UNCHANGED <<trending, ti, results, failed>>
    /\ UNCHANGED restTrend

\* the trending request fails: raise_for_status is not guarded
TrendRaise ==
    /\ tpc = "start"
    /\ tpc' = "raised"
    /\ UNCHANGED <<trending, coins, ti, results, failed>>
    /\ UNCHANGED restTrend

\* one iteration of  for coin in coins ; the price request succeeds or not
TrendAnalyze ==
    /\ tpc = "loop"
    /\ ti < Len(coins)
    /\ \E ok \in BOOLEAN :
          LET coin == coins[ti + 1]
          IN  IF fetch_prices(coin.id, ok).raised
              THEN /\ tpc' = "raised"
                   /\ UNCHANGED <<ti, results, failed>>
              ELSE /\ results' = Append(results, ResultRow(coin, ok))
                   /\ ti' = ti + 1
                   /\ failed' = IF ok THEN failed ELSE failed \cup {ti + 1}
                   /\ tpc' = tpc
    /\ UNCHANGED <<trending, coins>>
    /\ UNCHANGED restTrend

\* the loop is exhausted
TrendDone ==
    /\ tpc = "loop"
    /\ ti = Len(coins)
    /\ tpc' = "done"
    /\ UNCHANGED <<trending, coins, ti, results, failed>>
    /\ UNCHANGED restTrend

NextTrend ==
    \/ TrendSelect
    \/ TrendRaise
    \/ TrendAnalyze
    \/ TrendDone

----------------------------------------------------------------------------
(* The sinks: save_csv and save_db of blockasset_data and crypto_trending  *)

MaxWrites == 4

Tools == {"blockasset", "trending"}

\* the whole of fetch_price_history on a response: the dict after the loop
RECURSIVE PerDateOf(_)
PerDateOf(p) ==
    IF p = <<>> THEN <<>>
    ELSE LET last == p[Len(p)]
         IN  DictSet(PerDateOf(SubSeq(p, 1, Len(p) - 1)), DateOf(last[1]),
                     Sample(last[1], last[2]))

\* row lists main hands to the sinks: results of fetch_price_history, resp.
\* the results list of crypto_trending.main
SinkRows(t) ==
    IF t = "blockasset"
    THEN { RowsOf(PerDateOf(p)) :
             p \in { <<>>, << <<0, 1>> >>, << <<86400000, 2>>, <<-1, 3>> >>,
                     << <<0, 1>>, <<86399999, 2>> >> } }
    ELSE LET btc == [id |-> "btc", name |-> "Bitcoin",  symbol |-> "BTC"]
             eth == [id |-> "eth", name |-> "Ethereum", symbol |-> "ETH"]
         IN  { <<>>, <<ResultRow(btc, TRUE)>>,
               <<ResultRow(eth, TRUE), ResultRow(btc, FALSE)>>,
               <<ResultRow(btc, FALSE), ResultRow(eth, TRUE)>> }

Blank == NotAFloat("blank")    \* csv renders None as ""
Null  == NotAFloat("NULL")     \* sqlite3 binds None as NULL

\* the header line each save_csv writes
CsvHeader(t) ==
    IF t = "blockasset"
    THEN [kind |-> "header", cells |-> <<"date", "price_usd">>]
    ELSE [kind |-> "header", cells |-> <<"name", "symbol", "rsi", "signal">>]

\* the line written for one row
CsvLine(t, r) ==
    IF t = "blockasset"
    THEN [kind |-> "row", cells |-> <<DateOf(r[1]), r[2]>>]
    ELSE [kind |-> "row",
          cells |-> <<r.name, r.symbol, IF r.rsi = None THEN Blank ELSE r.rsi, r.signal>>]

\* the tuple executemany inserts for one row
DbTuple(t, r) ==
    IF t = "blockasset"
    THEN <<DateOf(r[1]), r[2]>>
    ELSE <<r.name, r.symbol, IF r.rsi = None THEN Null ELSE r.rsi, r.signal>>

\* variant: the file is opened for appending
OpenForAppend(content) == content

\* open(path, "w"): the content the file has once opened
OpenForWrite(content) == <<>>

\* CREATE TABLE IF NOT EXISTS
CreateIfNotExists(tb) == IF tb.exists THEN tb ELSE [exists |-> TRUE, rows |-> <<>>]

\* DELETE FROM <table>
DeleteFrom(tb) == [exists |-> tb.exists, rows |-> <<>>]

\* INSERT INTO <table> ... for every row, in order
InsertMany(tb, t, rs) ==
    [exists |-> tb.exists, rows |-> tb.rows \o [i \in 1..Len(rs) |-> DbTuple(t, rs[i])]]



InitSink ==
    /\ tool \in Tools
    /\ spc = "idle"
    /\ srows = <<>>
    /\ csv_file = <<>>
    /\ csv_base = <<>>
    /\ csv_out = <<>>
    /\ file_open = FALSE
    /\ table = NoTable
    /\ txn = NoTable
    /\ conn_open = FALSE
    /\ outcome = "none"
    /\ last_rows = NoWrite
    /\ nwrites = 0
    \* the other parts of the program are at rest
    /\ payload = <<>>
    /\ hpc = "idle"
    /\ hi = 0
    /\ per_date = <<>>
    /\ rows = <<>>
    /\ prices = <<>>
    /\ period = 0
    /\ rsi = None
    /\ signal = ""
    /\ rpc = "idle"
    /\ trending = <<>>
    /\ tpc = "idle"
    /\ coins = <<>>
    /\ ti = 0
    /\ results = <<>>
    /\ failed = {}

\* a line of which only a part reached the file: the cells wholly there
Cut(line, j) == [kind |-> "cut", cells |-> SubSeq(line.cells, 1, j)]

\* how far a file content reaches: whole lines, and the cells of a cut line
Reach(f) ==
    IF f # <<>> /\ f[Len(f)].kind = "cut"
    THEN <<Len(f) - 1, Len(f[Len(f)].cells) + 1>>
    ELSE <<Len(f), 0>>

\* the contents the file can have while out is what the writer was handed:
\* the writes are buffered, the bytes that were flushed are a prefix of out
\* that ends anywhere, also inside a line
Flushed(out) ==
    {SubSeq(out, 1, k) : k \in 0..Len(out)}
    \cup UNION { {Append(SubSeq(out, 1, k - 1), Cut(out[k], j)) : j \in 0..Len(out[k].cells)}
                 : k \in 1..Len(out) }

\* the contents of Flushed(out) that go on from the content f
FlushedFrom(f, out) ==
    {g \in Flushed(out) :
        \/ Reach(f)[1] < Reach(g)[1]
        \/ Reach(f)[1] = Reach(g)[1] /\ Reach(f)[2] <= Reach(g)[2]}

\* what the running save_csv has brought into the file: the file after the
\* content it had when it was opened
FlushedSoFar == SubSeq(csv_file, Len(csv_base) + 1, Len(csv_file))

\* the contents of the file once more of out is flushed
FileAfterFlush(out) == {csv_base \o g : g \in FlushedFrom(FlushedSoFar, out)}

\* save_csv(rows, path) is called: open(path, "w") truncates the file
CsvOpen ==
    /\ spc = "idle"
    /\ nwrites < MaxWrites
    /\ \E rs \in SinkRows(tool) : srows' = rs
    /\ csv_file' = OpenForWrite(csv_file)
    /\ csv_base' = OpenForWrite(csv_file)
    /\ csv_out' = <<>>
    /\ file_open' = TRUE
    /\ spc' = "csv_header"
    /\ outcome' = "running"
    /\ nwrites' = nwrites + 1
    /\ UNCHANGED <<tool, table, txn, conn_open, last_rows>>
    /\ UNCHANGED restSink

\* open(path, "w") raises (no permission, no such directory): nothing is
\* opened, the file is untouched, the exception ends the run
CsvOpenRaise ==
    /\ spc = "idle"
    /\ nwrites < MaxWrites
    /\ \E rs \in SinkRows(tool) : srows' = rs
    /\ spc' = "aborted"
    /\ outcome' = "raised"
    /\ nwrites' = nwrites + 1
    /\ UNCHANGED <<tool, csv_file, csv_base, csv_out, file_open, table, txn,
                   conn_open, last_rows>>
    /\ UNCHANGED restSink

\* writer.writerow(header) / writer.writeheader(): the line is buffered, a
\* full buffer is flushed
CsvWriteHeader ==
    /\ spc = "csv_header"
    /\ csv_out' = Append(csv_out, CsvHeader(tool))
    /\ csv_file' \in FileAfterFlush(csv_out')
    /\ spc' = "csv_rows"
    /\ UNCHANGED <<tool, srows, csv_base, file_open, table, txn, conn_open, outcome,
                   last_rows, nwrites>>
    /\ UNCHANGED restSink

\* the rows of srows handed to the writer so far
RowsWritten == Len(csv_out) - 1

\* one pass of the row loop / one row of writer.writerows(rows)
CsvWriteRow ==
    /\ spc = "csv_rows"
    /\ RowsWritten < Len(srows)
    /\ csv_out' = Append(csv_out, CsvLine(tool, srows[RowsWritten + 1]))
    /\ csv_file' \in FileAfterFlush(csv_out')
    /\ UNCHANGED <<tool, spc, srows, csv_base, file_open, table, txn, conn_open, outcome,
                   last_rows, nwrites>>
    /\ UNCHANGED restSink

\* the rows are exhausted: the with block flushes what is buffered and closes
\* the file, save_csv returns
CsvClose ==
    /\ spc = "csv_rows"
    /\ RowsWritten = Len(srows)
    /\ csv_file' = csv_base \o csv_out
    /\ file_open' = FALSE
    /\ spc' = "idle"
    /\ outcome' = "returned"
    /\ last_rows' = [last_rows EXCEPT !.csv_writes = @ + 1, !.csv_rows = srows,
                                       !.csv_prev = last_rows.csv_rows]
    /\ UNCHANGED <<tool, srows, csv_base, csv_out, table, txn, conn_open, nwrites>>
    /\ UNCHANGED restSink

\* the rows are exhausted and the flush at the end of the with block raises
\* OSError: the file is closed with a part of what was handed to the writer,
\* the exception leaves save_csv and ends the run
CsvCloseRaise ==
    /\ spc = "csv_rows"
    /\ RowsWritten = Len(srows)
    /\ csv_file' \in FileAfterFlush(csv_out) \ {csv_base \o csv_out}
    /\ file_open' = FALSE
    /\ spc' = "aborted"
    /\ outcome' = "raised"
    /\ UNCHANGED <<tool, srows, csv_base, csv_out, table, txn, conn_open, last_rows, nwrites>>
    /\ UNCHANGED restSink

\* the header or the next row raises inside the with block (the row is
\* rejected, or the flush of a full buffer fails): __exit__ flushes, which
\* may fail too, and closes the file; the exception leaves save_csv and ends
\* the run
CsvWriteRaise ==
    /\ \/ spc = "csv_header"
       \/ spc = "csv_rows" /\ RowsWritten < Len(srows)
    /\ csv_file' \in FileAfterFlush(csv_out)
    /\ file_open' = FALSE
    /\ spc' = "aborted"
    /\ outcome' = "raised"
    /\ UNCHANGED <<tool, srows, csv_base, csv_out, table, txn, conn_open, last_rows, nwrites>>
    /\ UNCHANGED restSink

\* save_db(rows, path) is called: sqlite3.connect(path); conn.cursor()
DbConnect ==
    /\ spc = "idle"
    /\ nwrites < MaxWrites
    /\ \E rs \in SinkRows(tool) : srows' = rs
    /\ conn_open' = TRUE
    /\ txn' = table
    /\ spc' = "db_create"
    /\ outcome' = "running"
    /\ nwrites' = nwrites + 1
    /\ UNCHANGED <<tool, csv_file, csv_base, csv_out, file_open, table, last_rows>>
    /\ UNCHANGED restSink

\* sqlite3.connect(path) raises (the file cannot be opened or created): there
\* is no connection, the database is untouched, the exception ends the run
DbConnectRaise ==
    /\ spc = "idle"
    /\ nwrites < MaxWrites
    /\ \E rs \in SinkRows(tool) : srows' = rs
    /\ spc' = "aborted"
    /\ outcome' = "raised"
    /\ nwrites' = nwrites + 1
    /\ UNCHANGED <<tool, csv_file, csv_base, csv_out, file_open, table, txn,
                   conn_open, last_rows>>
    /\ UNCHANGED restSink

\* cur.execute("CREATE TABLE IF NOT EXISTS ..."): runs outside a transaction
DbCreate ==
    /\ spc = "db_create"
    /\ table' = CreateIfNotExists(table)
    /\ txn' = CreateIfNotExists(table)
    /\ spc' = "db_delete"
    /\ UNCHANGED <<tool, srows, csv_file, csv_base, csv_out, file_open, conn_open, outcome,
                   last_rows, nwrites>>
    /\ UNCHANGED restSink

\* cur.execute("DELETE FROM ..."): opens the implicit transaction
DbDelete ==
    /\ spc = "db_delete"
    /\ txn' = DeleteFrom(txn)
    /\ spc' = "db_insert"
    /\ UNCHANGED <<tool, srows, csv_file, csv_base, csv_out, file_open, table, conn_open, outcome,
                   last_rows, nwrites>>
    /\ UNCHANGED restSink

\* cur.executemany("INSERT INTO ...", [...])
DbInsert ==
    /\ spc = "db_insert"
    /\ txn' = InsertMany(txn, tool, srows)
    /\ spc' = "db_commit"
    /\ UNCHANGED <<tool, srows, csv_file, csv_base, csv_out, file_open, table, conn_open, outcome,
                   last_rows, nwrites>>
    /\ UNCHANGED restSink

\* conn.commit()
DbCommit ==
    /\ spc = "db_commit"
    /\ table' = txn
    /\ spc' = "db_close"
    /\ UNCHANGED <<tool, srows, csv_file, csv_base, csv_out, file_open, txn, conn_open, outcome,
                   last_rows, nwrites>>
    /\ UNCHANGED restSink

\* conn.close(); save_db returns
DbClose ==
    /\ spc = "db_close"
    /\ conn_open' = FALSE
    /\ spc' = "idle"
    /\ outcome' = "returned"
    /\ last_rows' = [last_rows EXCEPT !.db_writes = @ + 1, !.db_rows = srows,
                                       !.db_prev = last_rows.db_rows]
    /\ UNCHANGED <<tool, srows, csv_file, csv_base, csv_out, file_open, table, txn, nwrites>>
    /\ UNCHANGED restSink

\* an execute, executemany or commit raises sqlite3.Error: nothing catches it
\* and no finally closes the connection; the exception ends the run.  An
\* executemany that raises at a row has inserted the rows before it, not
\* committed
DbRaise ==
    /\ spc \in {"db_create", "db_delete", "db_insert", "db_commit"}
    /\ IF spc = "db_insert"
       THEN \E k \in 0..(IF srows = <<>> THEN 0 ELSE Len(srows) - 1) :
                txn' = InsertMany(txn, tool, SubSeq(srows, 1, k))
       ELSE txn' = txn
    /\ spc' = "aborted"
    /\ outcome' = "raised"
    /\ UNCHANGED <<tool, srows, csv_file, csv_base, csv_out, file_open, table, conn_open,
                   last_rows, nwrites>>
    /\ UNCHANGED restSink

NextSink ==
    \/ CsvOpen
    \/ CsvOpenRaise
    \/ CsvWriteHeader
    \/ CsvWriteRow
    \/ CsvClose
    \/ CsvCloseRaise
    \/ CsvWriteRaise
    \/ DbConnect
    \/ DbConnectRaise
    \/ DbCreate
    \/ DbDelete
    \/ DbInsert
    \/ DbCommit
    \/ DbClose
    \/ DbRaise

----------------------------------------------------------------------------
(* Specifications: one per part of the program, the other parts at rest.   *)

SpecHist  == InitHist  /\ [][NextHist]_vars
SpecRsi   == InitRsi   /\ [][NextRsi]_vars
SpecTrend == InitTrend /\ [][NextTrend]_vars
SpecSink  == InitSink  /\ [][NextSink]_vars

----------------------------------------------------------------------------
(* Properties of fetch_price_history (SpecHist).                           *)

\* the UTC calendar day of a timestamp, as a day number since 1970-01-01
UtcDay(ts) == ts \div 86400000

\* the days present in the response, and the last position of each
InputDays    == {UtcDay(payload[j][1]) : j \in 1..Len(payload)}
LastIndex(d) ==
    CHOOSE j \in 1..Len(payload) :
        /\ UtcDay(payload[j][1]) = d
        /\ \A k \in (j + 1)..Len(payload) : UtcDay(payload[k][1]) # d

\* C1: the rows returned hold exactly one row per distinct UTC calendar date of
\* the input, and that row is the sample that came last in input order for
\* that date.
C1_LastSampleWins ==
    hpc = "done" =>
        /\ Len(rows) = Cardinality(InputDays)
        /\ \A i \in 1..Len(rows) : UtcDay(rows[i][1]) \in InputDays
        /\ \A d \in InputDays :
              \E i \in 1..Len(rows) :
                  /\ UtcDay(rows[i][1]) = d
                  /\ rows[i] = payload[LastIndex(d)]

\* three samples of one date, the last of them neither the first, the largest
\* nor the smallest, and the row of that date is the last one
C1_Witness ==
    /\ hpc = "done"
    /\ \E j1, j2, j3 \in 1..Len(payload) :
          /\ j1 < j2 /\ j2 < j3
          /\ UtcDay(payload[j1][1]) = UtcDay(payload[j3][1])
          /\ UtcDay(payload[j2][1]) = UtcDay(payload[j3][1])
          /\ payload[j1][1] # payload[j3][1]
          /\ payload[j1][2] < payload[j3][2]
          /\ payload[j3][2] < payload[j2][2]
          /\ \E i \in 1..Len(rows) : rows[i] = payload[j3]

\* C2: the rows returned are in strictly ascending order of calendar date, so
\* no date repeats, whatever the order of the input.
C2_StrictlyAscendingDates ==
    hpc = "done" =>
        \A i \in 1..(Len(rows) - 1) : UtcDay(rows[i][1]) < UtcDay(rows[i + 1][1])

\* input with a later date before an earlier one, three dates returned
C2_Witness ==
    /\ hpc = "done"
    /\ Len(rows) = 3
    /\ \E j, k \in 1..Len(payload) : j < k /\ UtcDay(payload[j][1]) > UtcDay(payload[k][1])

----------------------------------------------------------------------------
(* Properties of crypto_trending.main (SpecTrend).                         *)

\* the entry of every coin of the model when its prices arrive
RowWhenFetched ==
    [c \in {fetch_trending(<<r>>)[1] : r \in RawCoins} |-> ResultRow(c, TRUE)]

\* C3: failed price requests do not abort the run: the results hold one entry
\* per selected coin in selection order, a failed coin's entry has no RSI and
\* the signal "neutral", every other entry is what it is when nothing fails.
C3_FailureIsolated ==
    /\ tpc = "raised" => (ti = 0 /\ coins = <<>> /\ failed = {})
    /\ tpc \in {"loop", "done"} =>
          /\ Len(results) = ti
          /\ \A i \in 1..ti :
                /\ results[i].name = coins[i].name
                /\ results[i].symbol = coins[i].symbol
                /\ i \in failed => (results[i].rsi = None /\ results[i].signal = "neutral")
                /\ i \notin failed => results[i] = RowWhenFetched[coins[i]]
    /\ tpc = "done" => Len(results) = Len(coins)

\* a run that ended with a failed coin followed by a coin that got its signal
C3_Witness ==
    /\ tpc = "done"
    /\ \E i, j \in 1..Len(results) :
          /\ i < j
          /\ i \in failed
          /\ j \notin failed
          /\ results[j].signal # "neutral"
          /\ results[j].rsi # None

\* C7: the coins analysed are the first min(7, n) entries of the n entries the
\* source returned, in the source's order, duplicates included.
C7_FirstSeven ==
    /\ tpc \in {"loop", "done"} =>
          /\ Len(coins) = (IF Len(trending) < 7 THEN Len(trending) ELSE 7)
          /\ \A i \in 1..Len(coins) :
                /\ coins[i].id = trending[i].item.id
                /\ coins[i].name = trending[i].item.name
                /\ coins[i].symbol = trending[i].item.symbol
    /\ tpc = "done" =>
          /\ Len(results) = (IF Len(trending) < 7 THEN Len(trending) ELSE 7)
          /\ \A i \in 1..Len(results) : results[i].name = trending[i].item.name

\* a source list of more than 7 entries with a repeated coin among the first 7
C7_Witness ==
    /\ tpc = "done"
    /\ Len(trending) > 7
    /\ Len(results) = 7
    /\ trending[1] = trending[2]
    /\ trending[8] # trending[7]

----------------------------------------------------------------------------
(* Properties of compute_rsi and of the classification (SpecRsi).          *)

\* the value v is a float below / above / equal to the integer k
FloatBelow(v, k) ==
    /\ v.kind = "float"
    /\ IF v.neg THEN ~FIsZero(v) ELSE MagLess(v, FloatOfInt(k))
FloatAbove(v, k) == v.kind = "float" /\ ~v.neg /\ MagLess(FloatOfInt(k), v)
FloatIs(v, k)    == v.kind = "float" /\ ~FloatBelow(v, k) /\ ~FloatAbove(v, k)

C5_StrictThresholds ==
    rpc = "done" =>
        /\ FloatBelow(rsi, 30) => signal = "buy"
        /\ FloatAbove(rsi, 70) => signal = "sell"
        /\ (~FloatBelow(rsi, 30) /\ ~FloatAbove(rsi, 70)) => signal = "neutral"
        /\ (FloatIs(rsi, 30) \/ FloatIs(rsi, 70) \/ rsi = None) => signal = "neutral"

\* an RSI of exactly 30 classified "neutral"
C5_Witness ==
    /\ rpc = "done"
    /\ FloatIs(rsi, 30)
    /\ signal = "neutral"

\* no delta of the leading window is negative
NoLossInWindow == \A i \in 1..period : prices[i + 1] >= prices[i]

Continuations(ps, n) ==
    {SubSeq(ps, 1, n) \o tail : tail \in SeqsUpTo(RsiPrices, MaxLen - n)}

\* compute_rsi of every price list and period of the model
RsiOfList ==
    [q \in SeqsUpTo(RsiPrices, MaxLen), p \in Periods |-> compute_rsi(q, p)]

\* C10: two price lists longer than period that agree on their first
\* period + 1 prices get the same result from compute_rsi.
C10_LeadingWindowOnly ==
    (rpc \in {"returned", "raised"} /\ Len(prices) > period) =>
        \A q \in Continuations(prices, period + 1) : RsiOfList[q, period] = rsi

\* a list with a price after the window that differs from every price of the
\* window, and a result that is neither 0 nor 100
C10_Witness ==
    /\ rpc = "returned"
    /\ period >= 2
    /\ Len(prices) > period + 1
    /\ \A i \in 1..(period + 1) : prices[i] # prices[period + 2]
    /\ FloatAbove(rsi, 0)
    /\ FloatBelow(rsi, 100)

----------------------------------------------------------------------------
(* Properties of the sinks (SpecSink).                                     *)

\* the file holds the header and one line per row of rs, in order
FileHolds(rs) ==
    /\ Len(csv_file) = Len(rs) + 1
    /\ csv_file[1].kind = "header"
    /\ csv_file[1].cells = CsvHeader(tool).cells
    /\ \A i \in 1..Len(rs) :
          /\ csv_file[i + 1].kind = "row"
          /\ csv_file[i + 1].cells = CsvLine(tool, rs[i]).cells

\* the table holds one tuple per row of rs, in order
TableHolds(rs) ==
    /\ table.exists
    /\ Len(table.rows) = Len(rs)
    /\ \A i \in 1..Len(rs) : table.rows[i] = DbTuple(tool, rs[i])

\* C8: between sink calls, each target holds exactly the rows of the last
\* write to it that returned, in order; nothing of an earlier write is left.
C8_FullOverwrite ==
    spc = "idle" =>
        /\ last_rows.csv_writes > 0 => FileHolds(last_rows.csv_rows)
        /\ last_rows.db_writes > 0 => TableHolds(last_rows.db_rows)

\* a second write of fewer rows to the table and to the file
C8_Witness ==
    /\ spc = "idle"
    /\ last_rows.db_writes >= 2
    /\ last_rows.csv_writes >= 2
    /\ Len(last_rows.db_rows) = 1
    /\ Len(last_rows.db_prev) = 2
    /\ Len(last_rows.csv_rows) = 1
    /\ Len(last_rows.csv_prev) = 2

\* C9 as stated: whenever a sink call has returned or raised, the file handle
\* and the database connection it opened are closed.
C9_ReleasedOnEveryExit ==
    spc \in {"idle", "aborted"} => (~file_open /\ ~conn_open)

====
